---- MODULE Spec2Model ----
(***************************************************************************)
(* Model of proof_for_dpo_to_kpi_privacy.py: the function                  *)
(* simulate_preference_regret (lines 4-10) and the module-level script     *)
(* that calls it and plots the result (lines 12-18).                       *)
(*                                                                         *)
(* Numbers.  A float is a record [cls, neg, n, d]: cls "fin" is the        *)
(* rational (-1)^neg * n/d in lowest terms (so zero is signed, as in       *)
(* IEEE-754), cls "inf" is a signed infinity and cls "nan" is NaN.  The    *)
(* special values and the two division disciplines of the interpreter      *)
(* (Python float: ZeroDivisionError; numpy float64 scalar: inf/nan and a   *)
(* RuntimeWarning) are kept.  Rounding of finite results is not modelled:  *)
(* finite quotients and products are exact, and np.exp is evaluated by its *)
(* power series in fixed point with Scale units per 1.                     *)
(***************************************************************************)
EXTENDS Integers, Sequences, FiniteSets, TLC

VARIABLES pc, default_epsilons, delta, epsilons, kind, i, eps, b, prob,
          regret, ret, fig, warnings, calls, ncalls

vars == <<pc, default_epsilons, delta, epsilons, kind, i, eps, b, prob,
          regret, ret, fig, warnings, calls, ncalls>>

\* ------------------------------------------------------------------ bounds
\* longest explicit epsilon sequence a caller passes
MaxLen == 2
\* number of calls a caller makes in CallsSpec
MaxCalls == 2

\* ------------------------------------------------------------------ floats
\* Euclid's algorithm on a pair of naturals
gcd[p \in Nat \X Nat] ==
    IF p[2] = 0 THEN p[1] ELSE gcd[<<p[2], p[1] % p[2]>>]

GCD(x, y) == gcd[<<x, y>>]

Fin(neg, n, d) ==
    LET g == GCD(n, d)
    IN  [cls |-> "fin", neg |-> neg, n |-> n \div g, d |-> d \div g]

\* the float nearest to the integer ratio p/q (q > 0), rounding left out
R(p, q) == Fin(p < 0, IF p < 0 THEN -p ELSE p, q)

Inf(neg) == [cls |-> "inf", neg |-> neg, n |-> 0, d |-> 1]

NaN == [cls |-> "nan", neg |-> FALSE, n |-> 0, d |-> 1]

\* the exception object a Python float division by zero raises
ZeroDivisionError == [cls |-> "ZeroDivisionError", neg |-> FALSE, n |-> 0, d |-> 1]

\* a local that has not been bound yet
Unbound == [cls |-> "unbound", neg |-> FALSE, n |-> 0, d |-> 1]

IsFin(x) == x.cls = "fin"

IsZero(x) == x.cls = "fin" /\ x.n = 0

\* signed numerator of a finite value
Sn(x) == IF x.neg THEN -x.n ELSE x.n

\* x < y on floats: every comparison with NaN is false
Less(x, y) ==
    CASE x.cls = "nan" \/ y.cls = "nan" -> FALSE
      [] x.cls = "inf" -> x.neg /\ ~(y.cls = "inf" /\ y.neg)
      [] y.cls = "inf" -> ~y.neg
      [] OTHER -> LET g == GCD(x.d, y.d)
                  IN  Sn(x) * (y.d \div g) < Sn(y) * (x.d \div g)

\* x == y on floats: NaN differs from everything, -0.0 == 0.0
Eq(x, y) ==
    CASE x.cls = "nan" \/ y.cls = "nan" -> FALSE
      [] x.cls = "inf" \/ y.cls = "inf" -> x.cls = y.cls /\ x.neg = y.neg
      [] OTHER -> Sn(x) = Sn(y) /\ x.d = y.d

\* unary minus (line 8, -delta)
Negate(x) == IF x.cls = "nan" THEN x ELSE [x EXCEPT !.neg = ~x.neg]

\* x * y in IEEE-754 (line 8, 2 * b)
Times(x, y) ==
    CASE x.cls = "nan" \/ y.cls = "nan" -> NaN
      [] x.cls = "inf" \/ y.cls = "inf" ->
            IF IsZero(x) \/ IsZero(y) THEN NaN ELSE Inf(x.neg # y.neg)
      [] OTHER -> Fin(x.neg # y.neg, x.n * y.n, x.d * y.d)

\* x + y on finite values (np.linspace's  i * step + start)
Plus(x, y) ==
    LET g == GCD(x.d, y.d)
    IN  R(Sn(x) * (y.d \div g) + Sn(y) * (x.d \div g), (x.d \div g) * y.d)

\* x / y in IEEE-754 with the default numpy error state: no exception
IEEEDiv(x, y) ==
    CASE x.cls = "nan" \/ y.cls = "nan" -> NaN
      [] x.cls = "inf" -> IF y.cls = "inf" THEN NaN ELSE Inf(x.neg # y.neg)
      [] y.cls = "inf" -> Fin(x.neg # y.neg, 0, 1)
      [] IsZero(y) -> IF IsZero(x) THEN NaN ELSE Inf(x.neg # y.neg)
      [] OTHER -> Fin(x.neg # y.neg, x.n * y.d, x.d * y.n)

\* the RuntimeWarning numpy issues for x / y, if any
DivWarning(x, y) ==
    CASE x.cls = "nan" \/ y.cls = "nan" -> {}
      [] x.cls = "inf" /\ y.cls = "inf" -> {"invalid value encountered"}
      [] IsZero(y) /\ IsZero(x) -> {"invalid value encountered"}
      [] IsZero(y) /\ x.cls = "fin" -> {"divide by zero encountered"}
      [] OTHER -> {}

\* the operator / of lines 7 and 8.  The elements of an ndarray are numpy
\* float64 scalars, whose division never raises; the elements of a list
\* are Python floats, and delta is one, so a zero divisor raises.
TrueDiv(x, y, k) ==
    IF k = "list" /\ IsZero(y) THEN ZeroDivisionError ELSE IEEEDiv(x, y)

Raised(x) == x.cls = "ZeroDivisionError"

\* fixed-point resolution of np.exp
Scale == 10 ^ 6

\* Scale * exp(+-p/q) by the power series, from the state
\* <<p, q, neg, k, t, acc>>: t is the magnitude of term k-1, acc the sum
expSeries[a \in Nat \X Nat \X BOOLEAN \X Nat \X Nat \X Int] ==
    IF a[5] = 0 THEN a[6]
    ELSE LET t2 == (a[5] * a[1] + ((a[2] * a[4]) \div 2)) \div (a[2] * a[4])
         IN  expSeries[<<a[1], a[2], a[3], a[4] + 1, t2,
                         IF a[3] /\ a[4] % 2 = 1 THEN a[6] - t2 ELSE a[6] + t2>>]

ExpSeries(p, q, neg) == expSeries[<<p, q, neg, 1, Scale, Scale>>]

\* np.exp (line 8)
Exp(x) ==
    CASE x.cls = "nan" -> NaN
      [] x.cls = "inf" -> IF x.neg THEN Fin(FALSE, 0, 1) ELSE Inf(FALSE)
      [] OTHER -> Fin(FALSE, ExpSeries(x.n, x.d, x.neg), Scale)

\* np.linspace with endpoint=False: the stop value is left out
linspace_open(start, stop, num) ==
    LET step == IEEEDiv(Plus(stop, Negate(start)), R(num, 1))
    IN  [k \in 1..num |-> Plus(Times(R(k - 1, 1), step), start)]

\* np.linspace(start, stop, num): num samples, both end points included
linspace(start, stop, num) ==
    LET step == IEEEDiv(Plus(stop, Negate(start)), R(num - 1, 1))
    IN  [k \in 1..num |->
            IF k = num THEN stop ELSE Plus(Times(R(k - 1, 1), step), start)]

\* ------------------------------------------------------------------ inputs
\* line 4: the default of delta
DefaultDelta == R(1, 1)

\* line 4: the arguments of np.linspace in the default of epsilons
DefaultStart == R(1, 10)

DefaultStop == R(3, 1)

DefaultNum == 20

\* line 4: the array np.linspace(0.1, 3, 20) builds
DefaultEpsilons == linspace(DefaultStart, DefaultStop, DefaultNum)

\* the deltas a caller passes: negative, zero, fractional, the default, larger
Deltas == {R(-1, 1), R(0, 1), R(1, 2), DefaultDelta, R(2, 1)}

\* the values a caller puts in an epsilon sequence
EpsVals == {R(0, 1), R(1, 10), R(1, 1), R(2, 1), R(3, 1)}

\* the epsilon sequences a caller passes, with the type of container:
\* a list of Python floats or an ndarray of float64
Sweeps ==
    (UNION {[1..n -> EpsVals] : n \in 0..MaxLen}) \X {"list", "ndarray"}

\* the arguments of the repeated calls of CallsSpec
CallDeltas == {R(0, 1), DefaultDelta}

CallSweeps ==
    {<< <<R(1, 10), R(3, 1)>>, "list" >>, << <<R(1, 10), R(3, 1)>>, "ndarray" >>,
     << <<R(0, 1)>>, "list" >>, << <<R(0, 1)>>, "ndarray" >>}

\* ------------------------------------------------------------------ state
NoFigure ==
    [plotted |-> FALSE, x |-> <<>>, y |-> <<>>, xlabel |-> "", ylabel |-> "",
     title |-> "", grid |-> FALSE, shown |-> FALSE]

\* the interpreter is about to execute line 4
Init ==
    /\ pc = "def"
    /\ default_epsilons = <<>>
    /\ delta = Unbound
    /\ epsilons = <<>>
    /\ kind = "ndarray"
    /\ i = 0
    /\ eps = Unbound
    /\ b = Unbound
    /\ prob = Unbound
    /\ regret = <<>>
    /\ ret = <<>>
    /\ fig = NoFigure
    /\ warnings = {}
    /\ calls = {}
    /\ ncalls = 0

\* line 4: def evaluates the default arguments once
Def ==
    /\ pc = "def"
    /\ default_epsilons' = DefaultEpsilons
    /\ pc' = "main"
    /\ UNCHANGED <<delta, epsilons, kind, i, eps, b, prob, regret, ret, fig,
                   warnings, calls, ncalls>>

\* a call whose regret list outlives the call (a mutable default argument)
CallStale(d, e, k) ==
    /\ delta' = d
    /\ epsilons' = e
    /\ kind' = k
    /\ i' = 0
    /\ eps' = Unbound
    /\ b' = Unbound
    /\ prob' = Unbound
    /\ ncalls' = ncalls + 1
    /\ pc' = "for"
    /\ UNCHANGED <<default_epsilons, regret, ret, fig, warnings, calls>>

\* lines 4-5: a call binds the parameters and starts with an empty regret
Call(d, e, k) ==
    /\ delta' = d
    /\ epsilons' = e
    /\ kind' = k
    /\ regret' = <<>>
    /\ i' = 0
    /\ eps' = Unbound
    /\ b' = Unbound
    /\ prob' = Unbound
    /\ ncalls' = ncalls + 1
    /\ pc' = "for"
    /\ UNCHANGED <<default_epsilons, ret, fig, warnings, calls>>

\* a loop that stops one element short
ForNextShort ==
    /\ pc = "for"
    /\ IF i + 1 < Len(epsilons)
       THEN /\ i' = i + 1
            /\ eps' = epsilons[i + 1]
            /\ pc' = "l7"
       ELSE /\ pc' = "l10"
            /\ UNCHANGED <<i, eps>>
    /\ UNCHANGED <<default_epsilons, delta, epsilons, kind, b, prob, regret,
                   ret, fig, warnings, calls, ncalls>>

\* line 6: the for statement takes the next element, or leaves the loop
ForNext ==
    /\ pc = "for"
    /\ IF i < Len(epsilons)
       THEN /\ i' = i + 1
            /\ eps' = epsilons[i + 1]
            /\ pc' = "l7"
       ELSE /\ pc' = "l10"
            /\ UNCHANGED <<i, eps>>
    /\ UNCHANGED <<default_epsilons, delta, epsilons, kind, b, prob, regret,
                   ret, fig, warnings, calls, ncalls>>

\* the record of a call that ended
Ended(raised, out) ==
    [delta |-> delta, epsilons |-> epsilons, kind |-> kind,
     raised |-> raised, out |-> out]

\* line 7: b = delta / eps
Line7 ==
    /\ pc = "l7"
    /\ LET q == TrueDiv(delta, eps, kind)
       IN  IF Raised(q)
           THEN /\ pc' = "raised"
                /\ calls' = calls \cup {Ended(TRUE, <<>>)}
                /\ UNCHANGED <<b, warnings>>
           ELSE /\ b' = q
                /\ warnings' = warnings \cup DivWarning(delta, eps)
                /\ pc' = "l8"
                /\ UNCHANGED calls
    /\ UNCHANGED <<default_epsilons, delta, epsilons, kind, i, eps, prob,
                   regret, ret, fig, ncalls>>

\* line 8: prob = np.exp(-delta / (2 * b))
Line8 ==
    /\ pc = "l8"
    /\ LET q == TrueDiv(Negate(delta), Times(R(2, 1), b), kind)
       IN  IF Raised(q)
           THEN /\ pc' = "raised"
                /\ calls' = calls \cup {Ended(TRUE, <<>>)}
                /\ UNCHANGED <<prob, warnings>>
           ELSE /\ prob' = Exp(q)
                /\ warnings' =
                      warnings \cup DivWarning(Negate(delta), Times(R(2, 1), b))
                /\ pc' = "l9"
                /\ UNCHANGED calls
    /\ UNCHANGED <<default_epsilons, delta, epsilons, kind, i, eps, b,
                   regret, ret, fig, ncalls>>

\* line 9: regret.append(prob)
Line9 ==
    /\ pc = "l9"
    /\ regret' = Append(regret, prob)
    /\ pc' = "for"
    /\ UNCHANGED <<default_epsilons, delta, epsilons, kind, i, eps, b, prob,
                   ret, fig, warnings, calls, ncalls>>

\* a return with the two sequences in the wrong order
ReturnSwapped ==
    /\ pc = "l10"
    /\ ret' = <<regret, epsilons>>
    /\ calls' = calls \cup {Ended(FALSE, <<regret, epsilons>>)}
    /\ pc' = "returned"
    /\ UNCHANGED <<default_epsilons, delta, epsilons, kind, i, eps, b, prob,
                   regret, fig, warnings, ncalls>>

\* line 10 and the assignment of line 12: eps, regret = (epsilons, regret)
Return ==
    /\ pc = "l10"
    /\ ret' = <<epsilons, regret>>
    /\ calls' = calls \cup {Ended(FALSE, <<epsilons, regret>>)}
    /\ pc' = "returned"
    /\ UNCHANGED <<default_epsilons, delta, epsilons, kind, i, eps, b, prob,
                   regret, fig, warnings, ncalls>>

\* line 13: plt.plot(eps, regret)
Plot ==
    /\ pc = "returned"
    /\ fig' = [fig EXCEPT !.plotted = TRUE, !.x = ret[1], !.y = ret[2]]
    /\ pc' = "l14"
    /\ UNCHANGED <<default_epsilons, delta, epsilons, kind, i, eps, b, prob,
                   regret, ret, warnings, calls, ncalls>>

\* line 14: plt.xlabel
XLabel ==
    /\ pc = "l14"
    /\ fig' = [fig EXCEPT !.xlabel = "Privacy budget (epsilon)"]
    /\ pc' = "l15"
    /\ UNCHANGED <<default_epsilons, delta, epsilons, kind, i, eps, b, prob,
                   regret, ret, warnings, calls, ncalls>>

\* line 15: plt.ylabel
YLabel ==
    /\ pc = "l15"
    /\ fig' = [fig EXCEPT !.ylabel = "Preference Regret"]
    /\ pc' = "l16"
    /\ UNCHANGED <<default_epsilons, delta, epsilons, kind, i, eps, b, prob,
                   regret, ret, warnings, calls, ncalls>>

\* line 16: plt.title
Title ==
    /\ pc = "l16"
    /\ fig' = [fig EXCEPT !.title = "Tradeoff: Privacy vs Preference Accuracy"]
    /\ pc' = "l17"
    /\ UNCHANGED <<default_epsilons, delta, epsilons, kind, i, eps, b, prob,
                   regret, ret, warnings, calls, ncalls>>

\* line 17: plt.grid(True)
Grid ==
    /\ pc = "l17"
    /\ fig' = [fig EXCEPT !.grid = TRUE]
    /\ pc' = "l18"
    /\ UNCHANGED <<default_epsilons, delta, epsilons, kind, i, eps, b, prob,
                   regret, ret, warnings, calls, ncalls>>

\* line 18: plt.show() puts the figure on screen and blocks
Show ==
    /\ pc = "l18"
    /\ fig' = [fig EXCEPT !.shown = TRUE]
    /\ pc' = "showing"
    /\ UNCHANGED <<default_epsilons, delta, epsilons, kind, i, eps, b, prob,
                   regret, ret, warnings, calls, ncalls>>

\* line 18: plt.show() returns (the window is closed) and the script ends
Exit ==
    /\ pc = "showing"
    /\ pc' = "exit"
    /\ UNCHANGED <<default_epsilons, delta, epsilons, kind, i, eps, b, prob,
                   regret, ret, fig, warnings, calls, ncalls>>

\* the statements of the function body
Body == ForNext \/ Line7 \/ Line8 \/ Line9 \/ Return

\* the statements of the script after the call
Render == Plot \/ XLabel \/ YLabel \/ Title \/ Grid \/ Show

\* line 12 with the arguments left to the caller: the defaults, or any
\* delta and any sweep
CallAny ==
    /\ pc = "main"
    /\ \E d \in Deltas, s \in Sweeps \cup {<<default_epsilons, "ndarray">>} :
          Call(d, s[1], s[2])

Next == Def \/ CallAny \/ Body \/ Render \/ Exit

Spec == Init /\ [][Next]_vars

\* line 12 as written, delta left at its default, for any sweep in the
\* place of the default one
CallScript ==
    /\ pc = "main"
    /\ \E s \in Sweeps \cup {<<default_epsilons, "ndarray">>} :
          Call(DefaultDelta, s[1], s[2])

NextScript == Def \/ CallScript \/ Body \/ Render \/ Exit

\* the interpreter runs one statement after the other; only the return of
\* the blocking plt.show() waits for the user
ScriptSpec ==
    Init /\ [][NextScript]_vars /\ WF_vars(Def \/ CallScript \/ Body \/ Render)

\* a caller that calls the function again after it returned
CallAgain ==
    /\ pc \in {"main", "returned"}
    /\ ncalls < MaxCalls
    /\ \E d \in CallDeltas, s \in CallSweeps \cup {<<default_epsilons, "ndarray">>} :
          Call(d, s[1], s[2])

NextCalls == Def \/ CallAgain \/ Body \/ Render \/ Exit

CallsSpec == Init /\ [][NextCalls]_vars

\* ------------------------------------------------------------------ claims
Zero == R(0, 1)

One == R(1, 1)

Leq(x, y) == Less(x, y) \/ Eq(x, y)

AllPos(s) == \A k \in 1..Len(s) : Less(Zero, s[k])

\* |x - c| <= tol on finite values
Near(x, c, tol) ==
    /\ IsFin(x)
    /\ Leq(Plus(x, Negate(c)), tol)
    /\ Leq(Negate(tol), Plus(x, Negate(c)))

\* lines 7-8 as one expression: the regret of one element e
RegretOf(d, e, k) ==
    LET q == TrueDiv(d, e, k)
    IN  IF Raised(q) THEN q
        ELSE LET x == TrueDiv(Negate(d), Times(R(2, 1), q), k)
             IN  IF Raised(x) THEN x ELSE Exp(x)

\* the closed form of the specification: exp(-e/2)
ClosedForm(e) == Exp(IEEEDiv(Negate(e), R(2, 1)))

InFunction == pc \in {"for", "l7", "l8", "l9", "l10"}

AfterReturn == pc \in {"returned", "l14", "l15", "l16", "l17", "l18", "showing", "exit"}

Called == pc \notin {"def", "main"}

\* C1: for every delta, zero and negative included, and every epsilon > 0
\* the two steps of lines 7-8 are defined and give exp(-epsilon/2): no
\* division of the element raises, and every regret value appended for a
\* positive epsilon equals the closed form.
C1_Identity ==
    /\ \A k \in 1..Len(regret) :
          Less(Zero, epsilons[k]) => regret[k] = ClosedForm(epsilons[k])
    /\ (pc = "raised" => ~Less(Zero, eps))

\* C2: an element equal to 0 makes the call raise at that element; no regret
\* value is ever computed for it.  (At l7 the element has been taken and the
\* division has not run yet.)
C2_ZeroRaises ==
    \A k \in 1..i :
        IsZero(epsilons[k]) => (k = i /\ pc \in {"l7", "raised"})

\* C3: for an epsilon sequence of length n with all elements > 0 the call
\* returns, and returns two sequences of length n, the k-th regret being the
\* one computed from the k-th epsilon.
C3_ReturnsAligned ==
    (Called /\ AllPos(epsilons)) =>
        /\ pc # "raised"
        /\ AfterReturn =>
              /\ Len(ret[1]) = Len(epsilons)
              /\ Len(ret[2]) = Len(epsilons)
              /\ \A k \in 1..Len(epsilons) :
                    /\ ret[1][k] = epsilons[k]
                    /\ ret[2][k] = RegretOf(delta, epsilons[k], kind)

\* C4: for the same delta and two epsilons 0 < e1 < e2 of the sequence, the
\* regret of e1 is strictly greater than the regret of e2.
C4_StrictlyDecreasing ==
    \A j, k \in 1..Len(regret) :
        (Less(Zero, epsilons[j]) /\ Less(epsilons[j], epsilons[k]))
            => Less(regret[k], regret[j])

\* C5: when all elements of the sequence are > 0, every regret value lies in
\* (0, 1], for every delta.
C5_UnitInterval ==
    AllPos(epsilons) =>
        \A k \in 1..Len(regret) :
            Less(Zero, regret[k]) /\ Leq(regret[k], One)

IsDefaultCall ==
    /\ Called
    /\ delta = DefaultDelta
    /\ kind = "ndarray"
    /\ epsilons = default_epsilons

\* C7: the default call returns two sequences of length 20; its first regret
\* is the value for epsilon = 0.1, exp(-0.05), about 0.9512, and its last is
\* the value for epsilon = 3.0, exp(-1.5), about 0.2231 (tolerance 0.001).
C7_Default ==
    (IsDefaultCall /\ AfterReturn) =>
        /\ Len(ret[1]) = 20
        /\ Len(ret[2]) = 20
        /\ ret[1][1] = R(1, 10)
        /\ ret[1][20] = R(3, 1)
        /\ ret[2][1] = Exp(R(-1, 20))
        /\ Near(ret[2][1], R(9512, 10000), R(1, 1000))
        /\ ret[2][20] = Exp(R(-3, 2))
        /\ Near(ret[2][20], R(2231, 10000), R(1, 1000))

C7_Witness ==
    /\ IsDefaultCall
    /\ pc = "returned"
    /\ Len(ret[2]) = 20
    /\ warnings = {}

\* C8: a 0 at index k ends the computation there: no element after k is
\* taken, the call does not return, and nothing is plotted or shown.
C8_FaultTerminates ==
    \A k \in 1..Len(epsilons) :
        (Called /\ IsZero(epsilons[k])) =>
            /\ i <= k
            /\ ~AfterReturn
            /\ ret = <<>>
            /\ fig = NoFigure

\* the order of the script's steps, as a predicate of every state
C9_Order ==
    /\ (pc = "l10" => (i = Len(epsilons) /\ Len(regret) = Len(epsilons)))
    /\ (fig.plotted =>
            /\ AfterReturn /\ pc # "returned"
            /\ fig.x = epsilons /\ fig.y = regret
            /\ Len(fig.y) = Len(epsilons))
    /\ ((fig.xlabel # "" \/ fig.ylabel # "" \/ fig.title # "" \/ fig.grid)
            => fig.plotted)
    /\ (fig.shown =>
            /\ fig.plotted /\ fig.grid
            /\ fig.xlabel # "" /\ fig.ylabel # "" /\ fig.title # "")
    /\ (pc = "exit" => fig.shown)

\* a call has just started on a sweep whose elements are all > 0
C9_Started == pc = "for" /\ i = 0 /\ AllPos(epsilons)

\* C9: with all elements of the sweep > 0 the script reaches the display:
\* the loop is left after one iteration per element, the plot is given the
\* two complete sequences, labels, title and grid are set after the plot and
\* before the display, and the script ends only after the display.
C9_Finishes == []C9_Order /\ (C9_Started ~> fig.shown)

C9_Witness ==
    /\ pc = "showing"
    /\ fig.shown
    /\ Len(epsilons) >= 2
    /\ AllPos(epsilons)
    /\ fig.y = regret
    /\ Len(regret) = Len(epsilons)

\* the regret sequence of a call that raises nothing
RegretSeq(d, e, k) == [j \in 1..Len(e) |-> RegretOf(d, e[j], k)]

\* C10: every call starts from an empty regret list, and what a call
\* produces is determined by its delta and epsilons alone: two calls that
\* ended with equal arguments ended alike, whatever was called before.
C10_NoCarryOver ==
    /\ (pc = "for" /\ i = 0) => regret = <<>>
    /\ \A c1, c2 \in calls :
          (c1.delta = c2.delta /\ c1.epsilons = c2.epsilons /\ c1.kind = c2.kind)
              => c1 = c2
    /\ \A c \in calls :
          ~c.raised => c.out = <<c.epsilons, RegretSeq(c.delta, c.epsilons, c.kind)>>

\* two calls with equal arguments have returned, the second after the first
C10_Witness ==
    /\ ncalls = 2
    /\ pc = "returned"
    /\ Cardinality(calls) = 1
    /\ Len(regret) >= 2

====
